---- MODULE Spec2Model ----
(***************************************************************************)
(* Model of aioxmpp/e2etest/provision.py: the XEP-0030 feature discovery   *)
(* (discover_server_features, _is_feature_blocked) and the account         *)
(* lifecycle of Provisioner (get_connected_client, teardown).              *)
(*                                                                         *)
(* Strings that are matched by fnmatch are modelled as sequences of        *)
(* one-character strings, so that the glob match is computed and not       *)
(* assumed.  Python's None is the string "None".                           *)
(***************************************************************************)
EXTENDS Integers, Sequences, FiniteSets, TLC

(***************************************************************************)
(* Bounds of the model.                                                    *)
(***************************************************************************)
\* longest item listing the root entity answers an items query with
MaxItems == 2
\* number of get_connected_client invocations over the provisioner's lifetime
MaxCalls == 2
\* number of teardown invocations over the provisioner's lifetime
MaxTeardowns == 2
\* longest list of features a query on the feature map is made with
MaxCaps == 2

None == "None"

(***************************************************************************)
(* The service graph the discovery runs against: the server "s", the       *)
(* components "a" and "b" it may list as items, and "g", which only the    *)
(* item listing of "a" names.                                              *)
(***************************************************************************)
Root == "s"
Entities == {"s", "a", "b", "g"}

FeatPublish == <<"f", "#", "p">>
FeatRead == <<"f", "#", "r">>
Features == {FeatPublish, FeatRead}

\* entries of a disco#items result: (jid, node)
ItemA == [jid |-> "a", node |-> None]
ItemB == [jid |-> "b", node |-> None]
ItemG == [jid |-> "g", node |-> None]
ItemNoJid == [jid |-> None, node |-> None]
ItemNode == [jid |-> "a", node |-> "n"]
ItemKinds == {ItemA, ItemB, ItemNoJid, ItemNode}

RECURSIVE SeqsUpTo(_, _)
SeqsUpTo(S, n) ==
    IF n = 0 THEN {<<>>}
    ELSE LET shorter == SeqsUpTo(S, n - 1)
         IN shorter \cup {Append(q, x) : q \in shorter, x \in S}

ItemListings == SeqsUpTo(ItemKinds, MaxItems)

\* block_features configurations: entity -> list of fnmatch patterns
NoBlock == [e \in {} |-> <<>>]
BlockRootPublish == [e \in {"s"} |-> << <<"*", "#", "p">> >>]
BlockChildAny == [e \in {"a"} |-> << <<"f", "#", "?">> >>]
BlockMixed == [e \in {"s", "a", "b"} |->
                 IF e = "s" THEN << <<"x">>, <<"f", "#", "r">> >>
                 ELSE IF e = "a" THEN << <<"*", "p">> >>
                 ELSE << <<"?", "*", "r">> >>]
Blockmaps == {NoBlock, BlockRootPublish, BlockChildAny, BlockMixed}

VARIABLES
    infoOf,        \* world: entity -> features its disco#info answer carries
    itemsOf,       \* world: entity -> its disco#items answer
    task,          \* discover_server_features invocations, by call path
    infoQueries,   \* disco.query_info calls issued, in order: <<path, peer>>
    itemQueries,   \* disco.query_items calls issued, in order: <<path, peer>>
    queryErrors,   \* the queries that raised: <<path, "info" or "items">>
    counter,              \* Provisioner.__counter
    accounts_to_dispose,  \* Provisioner._accounts_to_dispose
    call,          \* get_connected_client invocations
    td,            \* teardown invocations
    disposal,      \* the cm.__aexit__ task of each handle
    featuremap,    \* Provisioner._featuremap
    account_info,  \* Provisioner._account_info
    hashOrder,     \* the order in which this process iterates a set of JIDs,
                   \* <<>> as long as no set was iterated
    query,         \* the last query on the feature map and its result
    init           \* the invocation of AnonymousProvisioner.initialise

dvars == <<infoOf, itemsOf, task, infoQueries, itemQueries, queryErrors>>
pvars == <<counter, accounts_to_dispose, call, td, disposal>>
qvars == <<featuremap, account_info, hashOrder, query, init>>
vars == <<dvars, pvars, qvars>>

(***************************************************************************)
(* fnmatch.fnmatch(name, pat) on POSIX (normcase is the identity): "*"     *)
(* matches any run of characters, "?" any one character, anything else     *)
(* itself; the whole name must match.  The alphabet of the model has no    *)
(* "[", so character classes do not arise.                                 *)
(***************************************************************************)
RECURSIVE fnmatch(_, _)
fnmatch(name, pat) ==
    IF pat = <<>> THEN name = <<>>
    ELSE IF Head(pat) = "*"
         THEN \/ fnmatch(name, Tail(pat))
              \/ name # <<>> /\ fnmatch(Tail(name), pat)
    ELSE /\ name # <<>>
         /\ Head(pat) = "?" \/ Head(pat) = Head(name)
         /\ fnmatch(Tail(name), Tail(pat))

\* blockmap.get(peer, [])
BlockmapGet(blockmap, peer) ==
    IF peer \in DOMAIN blockmap THEN blockmap[peer] ELSE <<>>

\* no pattern consulted
NeverBlocked(peer, feature, blockmap) == FALSE
_is_feature_blocked(peer, feature, blockmap) ==
    \E i \in 1..Len(BlockmapGet(blockmap, peer)) :
        fnmatch(feature, BlockmapGet(blockmap, peer)[i])

\* the dict comprehension that starts all_features, without its condition
OwnFeaturesUnfiltered(peer, features, blockmap) ==
    [f \in features |-> <<peer>>]

\* the dict comprehension that starts all_features
OwnFeatures(peer, features, blockmap) ==
    [f \in {x \in features : ~_is_feature_blocked(peer, x, blockmap)} |-> <<peer>>]

\* the value of the blockmap parameter when the caller passes none
DefaultBlockmap == NoBlock

\* the recurse_into_items argument of the re-invocation for an item
ChildRecurseDeeper == TRUE
ChildRecurse == FALSE

\* the generator condition selecting the items to recurse into
\* the condition without its test of the node
ItemEligibleAnyNode(item) == item.jid # None
\* if item.jid is not None and not item.node
ItemEligible(item) == item.jid # None /\ item.node = None

RECURSIVE SelectItems(_)
SelectItems(items) ==
    IF items = <<>> THEN <<>>
    ELSE IF ItemEligible(Head(items))
         THEN <<Head(items)>> \o SelectItems(Tail(items))
         ELSE SelectItems(Tail(items))

IndexGet(index, feature) ==
    IF feature \in DOMAIN index THEN index[feature] ELSE <<>>

\* one pass of "for feature, providers in features.items()" with the
\* providers put in front of the existing list
ExtendIndexFront(all, features) ==
    [f \in DOMAIN all \cup DOMAIN features |->
        IndexGet(features, f) \o IndexGet(all, f)]

\* all_features.setdefault(feature, []).extend(providers), for each entry
ExtendIndex(all, features) ==
    [f \in DOMAIN all \cup DOMAIN features |->
        IndexGet(all, f) \o IndexGet(features, f)]

\* for features in features_list: ...
RECURSIVE MergeIndexes(_, _)
MergeIndexes(all, features_list) ==
    IF features_list = <<>> THEN all
    ELSE MergeIndexes(ExtendIndex(all, Head(features_list)), Tail(features_list))

(***************************************************************************)
(* Invocations of discover_server_features are named by their call path:   *)
(* <<>> is the outer call, Append(t, i) the re-invocation for the i-th     *)
(* selected item of call t.                                                *)
(***************************************************************************)
Paths == SeqsUpTo(1..MaxItems, 2)

NoTask == [pc |-> "none", peer |-> None, recurse |-> FALSE,
           blockmap |-> NoBlock, all_features |-> <<>>, kids |-> 0,
           outOfOrder |-> FALSE]

Kid(t, i) == Append(t, i)
KidPcs(t) == [i \in 1..task[t].kids |-> task[Kid(t, i)].pc]
KidResults(t) == [i \in 1..task[t].kids |-> task[Kid(t, i)].all_features]

\* asyncio.gather without return_exceptions raises the exception of a child
GatherIgnoresFailure(pcs) == FALSE
GatherRaises(pcs) == \E i \in 1..Len(pcs) : pcs[i] = "failed"

RECURSIVE DoneResults(_, _)
DoneResults(pcs, results) ==
    IF pcs = <<>> THEN <<>>
    ELSE IF Head(pcs) = "done"
         THEN <<Head(results)>> \o DoneResults(Tail(pcs), Tail(results))
         ELSE DoneResults(Tail(pcs), Tail(results))

\* the answers the entities give, and no call made yet
InitWorld ==
    /\ \E fs \in SUBSET Features, fa \in SUBSET Features, fb \in SUBSET Features :
          infoOf = [e \in Entities |->
                      IF e = Root THEN fs
                      ELSE IF e = "a" THEN fa
                      ELSE IF e = "b" THEN fb
                      ELSE Features]
    /\ \E listing \in ItemListings :
          itemsOf = [e \in Entities |->
                       IF e = Root THEN listing
                       ELSE IF e = "a" THEN <<ItemG>>
                       ELSE <<>>]
    /\ task = [t \in Paths |-> NoTask]
    /\ infoQueries = <<>>
    /\ itemQueries = <<>>
    /\ queryErrors = {}

\* a caller invokes discover_server_features(disco, peer, recurse, blockmap);
\* the coroutine runs up to "yield from disco.query_info(peer)"
DiscoverStep(recurse, blockmap) ==
    /\ task[<<>>].pc = "none"
    /\ task' = [task EXCEPT ![<<>>] =
                   [NoTask EXCEPT !.pc = "info", !.peer = Root,
                                  !.recurse = recurse, !.blockmap = blockmap]]
    /\ infoQueries' = Append(infoQueries, <<(<<>>), Root>>)
    /\ UNCHANGED <<infoOf, itemsOf, itemQueries, queryErrors>>
Discover(recurse, blockmap) == DiscoverStep(recurse, blockmap) /\ UNCHANGED <<pvars, qvars>>

\* the call that re-invoked t
Parent(t) == SubSeq(t, 1, Len(t) - 1)
\* a re-invocation listed before t still waits for its query_info
EarlierPending(t) ==
    \E i \in 1..(t[Len(t)] - 1) : task[Kid(Parent(t), i)].pc = "info"
\* call t has its all_features and goes on at pc; its caller notes whether
\* t overtook a re-invocation listed before it
Answered(t, own, pc) ==
    [p \in Paths |->
        IF p = t THEN [task[t] EXCEPT !.all_features = own, !.pc = pc]
        ELSE IF t # <<>> /\ p = Parent(t)
             THEN [task[p] EXCEPT !.outOfOrder = @ \/ EarlierPending(t)]
             ELSE task[p]]

\* query_info of call t answers; all_features is built, and the call either
\* returns it or goes on to "yield from disco.query_items(peer)"
InfoResult(t) ==
    /\ task[t].pc = "info"
    /\ LET own == OwnFeatures(task[t].peer, infoOf[task[t].peer], task[t].blockmap)
       IN IF task[t].recurse
          THEN /\ task' = Answered(t, own, "items")
               /\ itemQueries' = Append(itemQueries, <<t, task[t].peer>>)
          ELSE /\ task' = Answered(t, own, "done")
               /\ UNCHANGED itemQueries
    /\ UNCHANGED <<infoOf, itemsOf, infoQueries, queryErrors, pvars, qvars>>

\* query_info of call t raises
InfoErrorStep(t) ==
    /\ task[t].pc = "info"
    /\ task' = [task EXCEPT ![t].pc = "failed"]
    /\ queryErrors' = queryErrors \cup {<<t, "info">>}
    /\ UNCHANGED <<infoOf, itemsOf, infoQueries, itemQueries>>
InfoError(t) == InfoErrorStep(t) /\ UNCHANGED <<pvars, qvars>>

RECURSIVE LogKids(_, _, _)
LogKids(t, sel, i) ==
    IF i > Len(sel) THEN <<>>
    ELSE << <<Kid(t, i), sel[i].jid>> >> \o LogKids(t, sel, i + 1)

\* query_items of call t answers; gather() wraps one re-invocation per
\* selected item into a task, each of which runs up to its query_info.
\* gather() of nothing is already done, and the call returns.
ItemsResultStep(t) ==
    /\ task[t].pc = "items"
    /\ LET sel == SelectItems(itemsOf[task[t].peer])
       IN /\ task' = [p \in Paths |->
                IF p = t
                THEN [task[t] EXCEPT !.kids = Len(sel),
                                     !.pc = IF sel = <<>> THEN "done" ELSE "gather"]
                ELSE IF \E i \in 1..Len(sel) : p = Kid(t, i)
                     THEN [NoTask EXCEPT !.pc = "info",
                                         !.peer = sel[p[Len(p)]].jid,
                                         !.recurse = ChildRecurse,
                                         !.blockmap = DefaultBlockmap]
                     ELSE task[p]]
          /\ infoQueries' = infoQueries \o LogKids(t, sel, 1)
    /\ UNCHANGED <<infoOf, itemsOf, itemQueries, queryErrors>>
ItemsResult(t) == ItemsResultStep(t) /\ UNCHANGED <<pvars, qvars>>

\* query_items of call t raises
ItemsErrorStep(t) ==
    /\ task[t].pc = "items"
    /\ task' = [task EXCEPT ![t].pc = "failed"]
    /\ queryErrors' = queryErrors \cup {<<t, "items">>}
    /\ UNCHANGED <<infoOf, itemsOf, infoQueries, itemQueries>>
ItemsError(t) == ItemsErrorStep(t) /\ UNCHANGED <<pvars, qvars>>

\* every re-invocation returned: the results are merged in listing order
GatherReturnStep(t) ==
    /\ task[t].pc = "gather"
    /\ \A i \in 1..task[t].kids : task[Kid(t, i)].pc \in {"done", "failed"}
    /\ ~GatherRaises(KidPcs(t))
    /\ task' = [task EXCEPT
                  ![t].all_features =
                      MergeIndexes(task[t].all_features,
                                   DoneResults(KidPcs(t), KidResults(t))),
                  ![t].pc = "done"]
    /\ UNCHANGED <<infoOf, itemsOf, infoQueries, itemQueries, queryErrors>>
GatherReturn(t) == GatherReturnStep(t) /\ UNCHANGED <<pvars, qvars>>

\* a re-invocation raised: gather() raises in call t, the other
\* re-invocations are left running
GatherErrorStep(t) ==
    /\ task[t].pc = "gather"
    /\ GatherRaises(KidPcs(t))
    /\ task' = [task EXCEPT ![t].pc = "failed"]
    /\ UNCHANGED <<infoOf, itemsOf, infoQueries, itemQueries, queryErrors>>
GatherError(t) == GatherErrorStep(t) /\ UNCHANGED <<pvars, qvars>>

NextDiscover ==
    \/ \E recurse \in BOOLEAN, blockmap \in Blockmaps : Discover(recurse, blockmap)
    \/ \E t \in Paths : InfoResult(t)
    \/ \E t \in Paths : InfoError(t)
    \/ \E t \in Paths : ItemsResult(t)
    \/ \E t \in Paths : ItemsError(t)
    \/ \E t \in Paths : GatherReturn(t)
    \/ \E t \in Paths : GatherError(t)

(***************************************************************************)
(* Provisioner: get_connected_client and teardown.  An invocation of       *)
(* get_connected_client is named c in Calls; the context manager it        *)
(* creates (the handle) carries the same name.  Every action is the code   *)
(* between two suspension points of a coroutine.                           *)
(***************************************************************************)
Calls == 1..MaxCalls
Teardowns == 1..MaxTeardowns

NoCall == [pc |-> "none", id_ |-> -1, prepare |-> FALSE, raised |-> None,
           services |-> <<>>, steps |-> <<>>]
NoTeardown == [pc |-> "none", futures |-> <<>>, counterAt |-> -1,
               quiet |-> FALSE, returnedAt |-> {}]
NoDisposal == [started |-> 0, state |-> "none"]

\* invocations are named in the order they are made
IsNextName(pcs, n) == pcs[n] = "none" /\ \A m \in 1..(n - 1) : pcs[m] # "none"

InFlight(c) == call[c].pc \in {"make_client", "prepare", "connect"}
ReturnedCalls == {c \in Calls : call[c].pc = "returned"}

\* Provisioner.__init__
InitProvisioner ==
    /\ counter = 0
    /\ accounts_to_dispose = <<>>
    /\ call = [c \in Calls |-> NoCall]
    /\ td = [t \in Teardowns |-> NoTeardown]
    /\ disposal = [h \in Calls |-> NoDisposal]

\* the statements of get_connected_client that act on the client, as logged
\* in the steps of a call
StepMakeClient == <<"_make_client">>
StepCreated == <<"client">>
StepSummon(service) == <<"summon", service>>
StepPrepare == <<"prepare">>
StepPrepared == <<"prepared">>
StepConnected == <<"connected">>
StepEnter == <<"__aenter__">>
StepEntered == <<"entered">>
StepAppend == <<"append">>

\* the loop leaving out the last service
SummonButLast(services) ==
    [i \in 1..(Len(services) - 1) |-> StepSummon(services[i])]
\* for service in services: client.summon(service)
SummonAll(services) == [i \in 1..Len(services) |-> StepSummon(services[i])]

\* cm = client.connected(presence=presence); yield from cm.__aenter__()
StepsConnect == <<StepConnected, StepEnter>>

\* the counter left as it is
SameCounter(n) == n
\* self.__counter += 1
NextCounter(n) == n + 1

\* get_connected_client is invoked and runs up to
\* "yield from self._make_client(logger)"
GetConnectedClientStep(c, prepare, services) ==
    /\ IsNextName([n \in Calls |-> call[n].pc], c)
    /\ call' = [call EXCEPT ![c] = [NoCall EXCEPT !.pc = "make_client",
                                                  !.id_ = counter,
                                                  !.prepare = prepare,
                                                  !.services = services,
                                                  !.steps = <<StepMakeClient>>]]
    /\ counter' = NextCounter(counter)
    /\ UNCHANGED <<accounts_to_dispose, td, disposal>>
GetConnectedClientWith(c, prepare, services) ==
    GetConnectedClientStep(c, prepare, services) /\ UNCHANGED <<dvars, qvars>>
\* services=[]
DefaultServices == <<>>
GetConnectedClient(c, prepare) == GetConnectedClientWith(c, prepare, DefaultServices)

\* _make_client returns: the services are summoned, and the coroutine runs
\* up to "yield from prepare(client)" or, with no prepare hook, creates the
\* context manager and runs up to "yield from cm.__aenter__()"
MakeClientReturn(c) ==
    /\ call[c].pc = "make_client"
    /\ call' = [call EXCEPT
                  ![c].pc = IF call[c].prepare THEN "prepare" ELSE "connect",
                  ![c].steps = @ \o <<StepCreated>> \o SummonAll(call[c].services)
                                 \o (IF call[c].prepare THEN <<StepPrepare>>
                                      ELSE StepsConnect)]
    /\ UNCHANGED <<counter, accounts_to_dispose, td, disposal, dvars, qvars>>

\* _make_client raises
MakeClientErrorStep(c) ==
    /\ call[c].pc = "make_client"
    /\ call' = [call EXCEPT ![c].pc = "failed", ![c].raised = "make_client"]
    /\ UNCHANGED <<counter, accounts_to_dispose, td, disposal>>
MakeClientError(c) == MakeClientErrorStep(c) /\ UNCHANGED <<dvars, qvars>>

\* the prepare hook returns: the context manager is created and the
\* coroutine runs up to "yield from cm.__aenter__()"
PrepareReturn(c) ==
    /\ call[c].pc = "prepare"
    /\ call' = [call EXCEPT ![c].pc = "connect",
                            ![c].steps = @ \o <<StepPrepared>> \o StepsConnect]
    /\ UNCHANGED <<counter, accounts_to_dispose, td, disposal, dvars, qvars>>

\* the prepare hook raises
PrepareError(c) ==
    /\ call[c].pc = "prepare"
    /\ call' = [call EXCEPT ![c].pc = "failed", ![c].raised = "prepare"]
    /\ UNCHANGED <<counter, accounts_to_dispose, td, disposal, dvars, qvars>>

\* the sequence replaced by the new handle
AccountsReplaced(accounts, cm) == <<cm>>
\* self._accounts_to_dispose.append(cm)
AccountsAppend(accounts, cm) == Append(accounts, cm)

\* cm.__aenter__() returns: the handle is appended and the client returned
ConnectReturnStep(c) ==
    /\ call[c].pc = "connect"
    /\ accounts_to_dispose' = AccountsAppend(accounts_to_dispose, c)
    /\ call' = [call EXCEPT ![c].pc = "returned",
                            ![c].steps = @ \o <<StepEntered, StepAppend>>]
    /\ UNCHANGED <<counter, td, disposal>>
ConnectReturn(c) == ConnectReturnStep(c) /\ UNCHANGED <<dvars, qvars>>

\* the append done although cm.__aenter__() raised
AccountsOnConnectErrorAppended(accounts, cm) == Append(accounts, cm)
\* cm.__aenter__() raises: the exception leaves the coroutine before the
\* append
AccountsOnConnectError(accounts, cm) == accounts

ConnectErrorStep(c) ==
    /\ call[c].pc = "connect"
    /\ accounts_to_dispose' = AccountsOnConnectError(accounts_to_dispose, c)
    /\ call' = [call EXCEPT ![c].pc = "failed", ![c].raised = "connect"]
    /\ UNCHANGED <<counter, td, disposal>>
ConnectError(c) == ConnectErrorStep(c) /\ UNCHANGED <<dvars, qvars>>

\* the loop skipping the first handle
FuturesOfTail(accounts) == IF accounts = <<>> THEN <<>> ELSE Tail(accounts)
\* for cm in self._accounts_to_dispose: futures.append(asyncio.async(...))
FuturesOf(accounts) == accounts

\* the sequence left as it is
AccountsKept(accounts) == accounts
\* self._accounts_to_dispose.clear()
AccountsCleared(accounts) == <<>>

SeqRange(q) == {q[i] : i \in 1..Len(q)}

\* asyncio.gather(*futures) without return_exceptions: the first exception
\* is raised in the caller
GatherFirstException(states) ==
    IF \E i \in 1..Len(states) : states[i] = "failed" THEN "raised"
    ELSE IF \A i \in 1..Len(states) : states[i] = "ok" THEN "done"
    ELSE "gather"
\* asyncio.gather(*futures, return_exceptions=True): done when every future
\* is done, exceptions are results
GatherAll(states) ==
    IF \A i \in 1..Len(states) : states[i] \in {"ok", "failed"} THEN "done"
    ELSE "gather"

FutureStates(t) == [i \in 1..Len(td[t].futures) |-> disposal[td[t].futures[i]].state]

\* teardown is invoked: a task running cm.__aexit__ is created for every
\* handle of the sequence, the sequence is cleared, and the coroutine runs
\* up to "yield from asyncio.gather(...)"; gather() of no future is done
\* already, and teardown returns
Teardown(t) ==
    /\ IsNextName([n \in Teardowns |-> td[n].pc], t)
    /\ LET futures == FuturesOf(accounts_to_dispose)
       IN /\ disposal' = [h \in Calls |->
                IF h \in SeqRange(futures)
                THEN [started |-> disposal[h].started + 1, state |-> "running"]
                ELSE disposal[h]]
          /\ td' = [td EXCEPT ![t] =
                [pc |-> IF futures = <<>> THEN GatherAll(<<>>) ELSE "gather",
                 futures |-> futures,
                 counterAt |-> counter,
                 quiet |-> \A c \in Calls : ~InFlight(c),
                 returnedAt |-> ReturnedCalls]]
    /\ accounts_to_dispose' = AccountsCleared(accounts_to_dispose)
    /\ UNCHANGED <<counter, call, dvars, qvars>>

\* cm.__aexit__ of handle h returns
DisposeReturn(h) ==
    /\ disposal[h].state = "running"
    /\ disposal' = [disposal EXCEPT ![h].state = "ok"]
    /\ UNCHANGED <<counter, accounts_to_dispose, call, td, dvars, qvars>>

\* cm.__aexit__ of handle h raises
DisposeError(h) ==
    /\ disposal[h].state = "running"
    /\ disposal' = [disposal EXCEPT ![h].state = "failed"]
    /\ UNCHANGED <<counter, accounts_to_dispose, call, td, dvars, qvars>>

\* the gather of teardown t is done, and teardown returns (or raises)
TeardownGather(t) ==
    /\ td[t].pc = "gather"
    /\ GatherAll(FutureStates(t)) # "gather"
    /\ td' = [td EXCEPT ![t].pc = GatherAll(FutureStates(t))]
    /\ UNCHANGED <<counter, accounts_to_dispose, call, disposal, dvars, qvars>>

\* the discovery is idle while the lifecycle runs
InitIdle ==
    /\ infoOf = [e \in Entities |-> {}]
    /\ itemsOf = [e \in Entities |-> <<>>]
    /\ task = [t \in Paths |-> NoTask]
    /\ infoQueries = <<>>
    /\ itemQueries = <<>>
    /\ queryErrors = {}

\* no query made on the feature map yet
NoQuery == [op |-> "none", caps |-> <<>>, required |-> {}, items |-> <<>>,
            none |-> FALSE, providers |-> {}, provider |-> None,
            features |-> {}, raised |-> FALSE]

\* initialise not invoked
NoInit == [pc |-> "none", blockmap |-> NoBlock]

\* Provisioner.__init__, and the process's iteration order
InitFeatures ==
    /\ featuremap = <<>>
    /\ account_info = None
    /\ hashOrder = <<>>
    /\ query = NoQuery
    /\ init = NoInit

Init == InitIdle /\ InitProvisioner /\ InitFeatures

Next ==
    \/ \E c \in Calls, prepare \in BOOLEAN : GetConnectedClient(c, prepare)
    \/ \E c \in Calls : MakeClientReturn(c)
    \/ \E c \in Calls : MakeClientError(c)
    \/ \E c \in Calls : PrepareReturn(c)
    \/ \E c \in Calls : PrepareError(c)
    \/ \E c \in Calls : ConnectReturn(c)
    \/ \E c \in Calls : ConnectError(c)
    \/ \E t \in Teardowns : Teardown(t)
    \/ \E h \in Calls : DisposeReturn(h)
    \/ \E h \in Calls : DisposeError(h)
    \/ \E t \in Teardowns : TeardownGather(t)

Spec == Init /\ [][Next]_vars

(***************************************************************************)
(* Queries on Provisioner._featuremap: get_feature_providers,              *)
(* get_feature_provider and get_feature_subset_provider.  The last query   *)
(* made and what it returned are kept in the variable query.               *)
(***************************************************************************)
FeatOther == <<"m", "u", "c">>
QueryCaps == Features \cup {FeatOther}

\* provider lists a feature map may hold: empty, repeated and unordered ones
ProviderLists == {<<>>, <<"s">>, <<"s", "a">>, <<"a", "b">>, <<"b", "s", "b">>}
\* feature maps, with and without an entry for FeatOther
FeatureMaps == [QueryCaps -> ProviderLists] \cup [Features -> ProviderLists]

RECURSIVE PermSeqs(_)
PermSeqs(S) ==
    IF S = {} THEN {<<>>}
    ELSE UNION {{<<x>> \o p : p \in PermSeqs(S \ {x})} : x \in S}

\* the orders in which a set of JIDs may be iterated, one per process
HashOrders == PermSeqs({"s", "a", "b"})

\* providers | set(...)
UniteStep(providers, more) == providers \cup more
\* providers &= set(...)
IntersectStep(providers, more) == providers \cap more

\* for feature_ns in iterator: providers &= set(self._featuremap.get(...))
RECURSIVE IntersectRest(_, _, _)
IntersectRest(fm, providers, nses) ==
    IF nses = <<>> THEN providers
    ELSE IntersectRest(fm,
                       IntersectStep(providers, SeqRange(IndexGet(fm, Head(nses)))),
                       Tail(nses))

\* get_feature_providers: the pair (returned None, returned set)
get_feature_providers(fm, nses) ==
    IF nses = <<>> THEN [none |-> TRUE, providers |-> {}]
    ELSE [none |-> FALSE,
          providers |-> IntersectRest(fm, SeqRange(IndexGet(fm, Head(nses))),
                                      Tail(nses))]

\* iter(a set): the members in the order of the process
RECURSIVE IterSet(_, _)
IterSet(S, order) ==
    IF order = <<>> THEN <<>>
    ELSE IF Head(order) \in S THEN <<Head(order)>> \o IterSet(S, Tail(order))
    ELSE IterSet(S, Tail(order))

\* "providers is None"
IsNoneOnly(r) == r.none
\* "not providers": None and the empty set are both false
NotProviders(r) == r.none \/ r.providers = {}

\* get_feature_provider: next(iter(providers)) of an empty set raises
get_feature_provider(fm, nses, order) ==
    LET r == get_feature_providers(fm, nses)
    IN IF NotProviders(r) THEN [provider |-> None, raised |-> FALSE]
       ELSE IF r.providers = {} THEN [provider |-> None, raised |-> TRUE]
       ELSE [provider |-> Head(IterSet(r.providers, order)), raised |-> FALSE]

\* candidates.setdefault(provider, set()): the keys in insertion order
RECURSIVE InsertKeys(_, _)
InsertKeys(keys, providers) ==
    IF providers = <<>> THEN keys
    ELSE InsertKeys(IF Head(providers) \in SeqRange(keys) THEN keys
                    ELSE Append(keys, Head(providers)),
                    Tail(providers))

\* for feature_ns in feature_nses: for provider in providers: ...
RECURSIVE CandidateKeys(_, _, _)
CandidateKeys(fm, keys, nses) ==
    IF nses = <<>> THEN keys
    ELSE CandidateKeys(fm, InsertKeys(keys, IndexGet(fm, Head(nses))), Tail(nses))

\* candidates[provider] after the loops
CandidateFeatures(fm, nses, provider) ==
    {ns \in SeqRange(nses) : provider \in SeqRange(IndexGet(fm, ns))}

\* "features & required_subset" taken as a truth value
MeetsRequired(features, required) == features \cap required # {}
\* features & required_subset == required_subset
CoversRequired(features, required) == features \cap required = required

\* the generator over candidates.items(), iterated in the order items
RECURSIVE Survivors(_, _, _, _)
Survivors(fm, nses, required, items) ==
    IF items = <<>> THEN <<>>
    ELSE LET features == CandidateFeatures(fm, nses, Head(items))
             rest == Survivors(fm, nses, required, Tail(items))
         IN IF CoversRequired(features, required)
            THEN << <<Head(items), features>> >> \o rest
            ELSE rest

\* an insertion that puts x before the entries of equal key
RECURSIVE InsertBeforeEqual(_, _)
InsertBeforeEqual(sorted, x) ==
    IF sorted = <<>> THEN <<x>>
    ELSE IF Cardinality(Head(sorted)[2]) < Cardinality(x[2])
         THEN <<Head(sorted)>> \o InsertBeforeEqual(Tail(sorted), x)
         ELSE <<x>> \o sorted

\* sorted() is stable: x goes behind the entries of smaller or equal key
RECURSIVE InsertSorted(_, _)
InsertSorted(sorted, x) ==
    IF sorted = <<>> THEN <<x>>
    ELSE IF Cardinality(Head(sorted)[2]) <= Cardinality(x[2])
         THEN <<Head(sorted)>> \o InsertSorted(Tail(sorted), x)
         ELSE <<x>> \o sorted

\* sorted(..., key=lambda x: len(x[1]))
RECURSIVE SortByLen(_, _)
SortByLen(sorted, entries) ==
    IF entries = <<>> THEN sorted
    ELSE SortByLen(InsertSorted(sorted, Head(entries)), Tail(entries))

\* get_feature_subset_provider: candidates.pop(), or (None, None)
get_feature_subset_provider(fm, nses, required, items) ==
    LET candidates == SortByLen(<<>>, Survivors(fm, nses, required, items))
    IN IF candidates = <<>> THEN [provider |-> None, features |-> {}, none |-> TRUE]
       ELSE [provider |-> candidates[Len(candidates)][1],
             features |-> candidates[Len(candidates)][2],
             none |-> FALSE]

\* a provisioner whose feature map has been filled
InitQuery ==
    /\ InitIdle
    /\ InitProvisioner
    /\ featuremap \in FeatureMaps
    /\ account_info = None
    /\ hashOrder = <<>>
    /\ query = NoQuery
    /\ init = NoInit

CapsLists == SeqsUpTo(QueryCaps, MaxCaps)

\* a test asks once; the repetition of get_feature_provider is a step of its own
GetFeatureProviders(nses) ==
    /\ query.op = "none"
    /\ query' = [NoQuery EXCEPT
                   !.op = "providers", !.caps = nses,
                   !.none = get_feature_providers(featuremap, nses).none,
                   !.providers = get_feature_providers(featuremap, nses).providers]
    /\ UNCHANGED <<featuremap, account_info, hashOrder, init, dvars, pvars>>

ProviderQuery(nses, order) ==
    [NoQuery EXCEPT
       !.op = "provider", !.caps = nses,
       !.provider = get_feature_provider(featuremap, nses, order).provider,
       !.raised = get_feature_provider(featuremap, nses, order).raised]

\* the iteration order of the process shows with the first call
GetFeatureProvider(nses) ==
    /\ query.op = "none"
    /\ \E order \in IF hashOrder = <<>> THEN HashOrders ELSE {hashOrder} :
          /\ query' = ProviderQuery(nses, order)
          /\ hashOrder' = order
    /\ UNCHANGED <<featuremap, account_info, init, dvars, pvars>>

\* get_feature_provider is called again with the features of the last call
GetFeatureProviderAgain ==
    /\ query.op = "provider"
    /\ query' = ProviderQuery(query.caps, hashOrder)
    /\ UNCHANGED <<featuremap, account_info, hashOrder, init, dvars, pvars>>

\* candidates.items() is iterated in insertion order, or, where dicts are
\* not ordered, in any order
GetFeatureSubsetProvider(nses, required) ==
    /\ query.op = "none"
    /\ \E items \in PermSeqs(SeqRange(CandidateKeys(featuremap, <<>>, nses))) :
          LET r == get_feature_subset_provider(featuremap, nses, required, items)
          IN query' = [NoQuery EXCEPT
                         !.op = "subset", !.caps = nses, !.required = required,
                         !.items = items, !.none = r.none,
                         !.provider = r.provider, !.features = r.features]
    /\ UNCHANGED <<featuremap, account_info, hashOrder, init, dvars, pvars>>

NextQuery ==
    \/ \E nses \in CapsLists : GetFeatureProviders(nses)
    \/ \E nses \in CapsLists : GetFeatureProvider(nses)
    \/ GetFeatureProviderAgain
    \/ \E nses \in CapsLists, required \in SUBSET QueryCaps :
          GetFeatureSubsetProvider(nses, required)

SpecQuery == InitQuery /\ [][NextQuery]_vars

\* the lifecycle is idle while a discovery runs
InitDiscover == InitWorld /\ InitProvisioner /\ InitFeatures

SpecDiscover == InitDiscover /\ [][NextDiscover]_vars

(***************************************************************************)
(* get_connected_client with services: the invocations alone, each with    *)
(* its own list of services.                                               *)
(***************************************************************************)
ServiceLists == {<<>>, <<"DiscoClient">>, <<"DiscoClient", "PubSubClient">>}

NextSteps ==
    \/ \E c \in Calls, prepare \in BOOLEAN, services \in ServiceLists :
          GetConnectedClientWith(c, prepare, services)
    \/ \E c \in Calls : MakeClientReturn(c)
    \/ \E c \in Calls : MakeClientError(c)
    \/ \E c \in Calls : PrepareReturn(c)
    \/ \E c \in Calls : PrepareError(c)
    \/ \E c \in Calls : ConnectReturn(c)
    \/ \E c \in Calls : ConnectError(c)

SpecSteps == Init /\ [][NextSteps]_vars

(***************************************************************************)
(* AnonymousProvisioner.initialise.  It is the first to call               *)
(* get_connected_client (invocation 1) and the only caller of              *)
(* discover_server_features; each action is the code of initialise and of  *)
(* the coroutine it waits for, between two suspension points.  teardown is *)
(* called once, after initialise has returned or raised.                   *)
(***************************************************************************)
\* the answers to disco.query_info(None)
AccountInfos == {"anonymous", "account"}

\* dict.update
FeaturemapUpdate(fm, result) ==
    [f \in DOMAIN fm \cup DOMAIN result |->
        IF f \in DOMAIN result THEN result[f] ELSE fm[f]]

\* the exception swallowed: initialise returns
InitialiseSwallowed == [init EXCEPT !.pc = "done"]
\* an exception leaves initialise
InitialiseRaised == [init EXCEPT !.pc = "raised"]
InitialiseOver == init.pc \in {"done", "raised"}

\* initialise is invoked on a provisioner configured with blockmap, and runs
\* into get_connected_client up to "yield from self._make_client(logger)"
Initialise(blockmap) ==
    /\ init.pc = "none"
    /\ GetConnectedClientStep(1, FALSE, DefaultServices)
    /\ init' = [pc |-> "client", blockmap |-> blockmap]
    /\ UNCHANGED <<dvars, featuremap, account_info, hashOrder, query>>

InitialiseMakeClientReturn == init.pc = "client" /\ MakeClientReturn(1)

\* _make_client raises, and so do get_connected_client and initialise
InitialiseMakeClientError ==
    /\ init.pc = "client"
    /\ MakeClientErrorStep(1)
    /\ init' = InitialiseRaised
    /\ UNCHANGED <<dvars, featuremap, account_info, hashOrder, query>>

\* get_connected_client returns the client: DiscoClient is summoned and
\* discover_server_features(disco, self.__domain, blockmap=self.__blockmap)
\* runs up to its query_info
InitialiseConnectReturn ==
    /\ init.pc = "client"
    /\ ConnectReturnStep(1)
    /\ DiscoverStep(TRUE, init.blockmap)
    /\ init' = [init EXCEPT !.pc = "discover"]
    /\ UNCHANGED <<featuremap, account_info, hashOrder, query>>

InitialiseConnectError ==
    /\ init.pc = "client"
    /\ ConnectErrorStep(1)
    /\ init' = InitialiseRaised
    /\ UNCHANGED <<dvars, featuremap, account_info, hashOrder, query>>

\* discover_server_features returned all_features:
\* self._featuremap.update(...), and initialise runs up to
\* "yield from disco.query_info(None)"
InitialiseDiscovered(all_features) ==
    /\ featuremap' = FeaturemapUpdate(featuremap, all_features)
    /\ init' = [init EXCEPT !.pc = "account_info"]

InitialiseInfoError ==
    /\ init.pc = "discover"
    /\ InfoErrorStep(<<>>)
    /\ init' = InitialiseRaised
    /\ UNCHANGED <<pvars, featuremap, account_info, hashOrder, query>>

InitialiseItemsResult ==
    /\ init.pc = "discover"
    /\ ItemsResultStep(<<>>)
    /\ IF task'[<<>>].pc = "done"
       THEN InitialiseDiscovered(task'[<<>>].all_features)
       ELSE UNCHANGED <<featuremap, init>>
    /\ UNCHANGED <<pvars, account_info, hashOrder, query>>

InitialiseItemsError ==
    /\ init.pc = "discover"
    /\ ItemsErrorStep(<<>>)
    /\ init' = InitialiseRaised
    /\ UNCHANGED <<pvars, featuremap, account_info, hashOrder, query>>

InitialiseGatherReturn ==
    /\ init.pc = "discover"
    /\ GatherReturnStep(<<>>)
    /\ InitialiseDiscovered(task'[<<>>].all_features)
    /\ UNCHANGED <<pvars, account_info, hashOrder, query>>

InitialiseGatherError ==
    /\ init.pc = "discover"
    /\ GatherErrorStep(<<>>)
    /\ init' = InitialiseRaised
    /\ UNCHANGED <<pvars, featuremap, account_info, hashOrder, query>>

\* disco.query_info(None) answers: self._account_info is set, client is
\* deleted and initialise returns
InitialiseAccountInfo(info) ==
    /\ init.pc = "account_info"
    /\ account_info' = info
    /\ init' = [init EXCEPT !.pc = "done"]
    /\ UNCHANGED <<dvars, pvars, featuremap, hashOrder, query>>

\* disco.query_info(None) raises
InitialiseAccountInfoError ==
    /\ init.pc = "account_info"
    /\ init' = InitialiseRaised
    /\ UNCHANGED <<dvars, pvars, featuremap, account_info, hashOrder, query>>

NextInit ==
    \/ \E blockmap \in Blockmaps : Initialise(blockmap)
    \/ InitialiseMakeClientReturn
    \/ InitialiseMakeClientError
    \/ InitialiseConnectReturn
    \/ InitialiseConnectError
    \/ \E t \in Paths : InfoResult(t)
    \/ \E t \in Paths \ {<<>>} : InfoError(t)
    \/ InitialiseInfoError
    \/ InitialiseItemsResult
    \/ InitialiseItemsError
    \/ InitialiseGatherReturn
    \/ InitialiseGatherError
    \/ \E info \in AccountInfos : InitialiseAccountInfo(info)
    \/ InitialiseAccountInfoError
    \/ InitialiseOver /\ Teardown(1)
    \/ DisposeReturn(1)
    \/ DisposeError(1)
    \/ TeardownGather(1)

SpecInit == InitDiscover /\ [][NextInit]_vars

(***************************************************************************)
(* Properties of the discovery.                                            *)
(***************************************************************************)
Outer == task[<<>>]
Returned == Outer.pc = "done"
Selected == SelectItems(itemsOf[Root])
SelectedJids == {Selected[i].jid : i \in 1..Len(Selected)}
Occurs(list, e) == \E i \in 1..Len(list) : list[i] = e
MatchesSome(patterns, feature) ==
    \E i \in 1..Len(patterns) : fnmatch(feature, patterns[i])
Blocked(e, feature) == MatchesSome(BlockmapGet(Outer.blockmap, e), feature)

\* C1: in the index a discover call returns, no entity that has patterns in
\* the blockmap passed to the call (the root or an item of the root) is a
\* provider of a feature it reports and one of its patterns matches.
C1_BlockedNeverAttributed ==
    Returned =>
        \A e \in DOMAIN Outer.blockmap : \A f \in infoOf[e] :
            Blocked(e, f) => ~Occurs(IndexGet(Outer.all_features, f), e)

RECURSIVE ReportingJids(_, _)
ReportingJids(items, f) ==
    IF items = <<>> THEN <<>>
    ELSE IF f \in infoOf[Head(items).jid]
         THEN <<Head(items).jid>> \o ReportingJids(Tail(items), f)
         ELSE ReportingJids(Tail(items), f)

\* C7: a recursive discover call returns, for every feature the root
\* reports that is blocked neither for the root nor for an item, the list
\* that has the root in front, followed by the items reporting the feature.
C7_RootFirst ==
    Returned /\ Outer.recurse =>
        \A f \in infoOf[Root] :
            (\A e \in SelectedJids \cup {Root} : ~Blocked(e, f)) =>
                /\ f \in DOMAIN Outer.all_features
                /\ Outer.all_features[f] = <<Root>> \o ReportingJids(Selected, f)

C7_Witness ==
    /\ Returned /\ Outer.recurse
    /\ Outer.blockmap = BlockRootPublish
    /\ FeatRead \in DOMAIN Outer.all_features
    /\ Outer.all_features[FeatRead] = <<"s", "b", "a">>

\* C8: only the outer call queries an item listing, only the root and the
\* selected items of the root are queried for their features, no call is
\* made for an item of an item, and no other entity becomes a provider.
C8_OneLevel ==
    /\ \A i \in 1..Len(itemQueries) : itemQueries[i] = <<(<<>>), Root>>
    /\ \A i \in 1..Len(infoQueries) :
          \/ infoQueries[i] = <<(<<>>), Root>>
          \/ \E k \in 1..Len(Selected) : infoQueries[i] = <<(<<k>>), Selected[k].jid>>
    /\ \A t \in Paths : Len(t) = 2 => task[t].pc = "none"
    /\ \A f \in DOMAIN Outer.all_features :
          \A i \in 1..Len(Outer.all_features[f]) :
              Outer.all_features[f][i] \in SelectedJids \cup {Root}

C8_Witness ==
    /\ Returned /\ Outer.recurse
    /\ "a" \in SelectedJids /\ itemsOf["a"] = <<ItemG>> /\ infoOf["g"] # {}
    /\ \E f \in DOMAIN Outer.all_features : Occurs(Outer.all_features[f], "a")

Count(log, x) == Cardinality({i \in 1..Len(log) : log[i] = x})

\* C9: a discover call returns only when no query raised and every
\* re-invocation returned; once a query raised the call does not return;
\* and no query is issued a second time.
C9_NoPartialIndex ==
    /\ Returned =>
          /\ queryErrors = {}
          /\ \A i \in 1..Outer.kids : task[<<i>>].pc = "done"
          /\ Outer.recurse => Outer.kids = Len(Selected)
    /\ \A i \in 1..Len(infoQueries) : Count(infoQueries, infoQueries[i]) = 1
    /\ Len(infoQueries) <= 1 + Len(Selected)
    /\ Len(itemQueries) <= 1

C9_Witness ==
    /\ Outer.pc = "failed"
    /\ Outer.all_features # <<>>
    /\ \E i, j \in 1..Outer.kids :
          /\ task[<<i>>].pc = "done" /\ task[<<i>>].all_features # <<>>
          /\ task[<<j>>].pc = "failed"

\* C10: a call with recurse_into_items false returns exactly one entry for
\* each feature its peer reports that no pattern of its blockmap for the
\* peer matches, every entry is the list of the peer alone, and the call
\* issues no items query.
C10_NonRecursive ==
    \A t \in Paths :
        task[t].pc = "done" /\ ~task[t].recurse =>
            /\ DOMAIN task[t].all_features =
                  {f \in infoOf[task[t].peer] :
                      ~MatchesSome(BlockmapGet(task[t].blockmap, task[t].peer), f)}
            /\ \A f \in DOMAIN task[t].all_features :
                  task[t].all_features[f] = <<task[t].peer>>
            /\ \A i \in 1..Len(itemQueries) : itemQueries[i][1] # t

C10_Witness ==
    /\ Returned /\ ~Outer.recurse
    /\ Outer.blockmap = BlockRootPublish
    /\ infoOf[Root] = Features
    /\ Outer.all_features = [f \in {FeatRead} |-> <<Root>>]
    /\ itemQueries = <<>>

(***************************************************************************)
(* Properties of the account lifecycle.                                    *)
(***************************************************************************)
\* the handles _make_client created a client for
Created == {c \in Calls : call[c].pc \in {"prepare", "connect", "returned"}
                          \/ call[c].raised \in {"prepare", "connect"}}
\* a teardown that was invoked after the last get_connected_client: no
\* invocation was in flight then and none was made since
TeardownAfterLast ==
    \E t \in Teardowns :
        td[t].pc # "none" /\ td[t].quiet /\ td[t].counterAt = counter
Pending == SeqRange(accounts_to_dispose)

\* C2: once teardown was invoked after the last get_connected_client, every
\* handle ever created has had its disposal started exactly once, the ones
\* whose prepare hook or handshake failed included.
C2_EveryCreatedDisposedOnce ==
    TeardownAfterLast => \A h \in Created : disposal[h].started = 1

\* C2, amended: a handle whose handshake succeeded is either pending with
\* no disposal started or not pending with exactly one disposal started, and
\* the latter once teardown was invoked after the last get_connected_client;
\* for a handle whose call failed no disposal is ever started.
C2_ConnectedDisposedOnce ==
    /\ \A h \in ReturnedCalls :
          /\ Cardinality({i \in 1..Len(accounts_to_dispose) :
                             accounts_to_dispose[i] = h})
                = 1 - disposal[h].started
          /\ disposal[h].started \in {0, 1}
          /\ TeardownAfterLast => disposal[h].started = 1
    /\ \A h \in Calls \ ReturnedCalls :
          disposal[h].started = 0 /\ h \notin Pending

C2_Witness ==
    /\ TeardownAfterLast
    /\ \E h1, h2 \in Calls :
          /\ call[h1].raised = "connect" /\ disposal[h1].started = 0
          /\ call[h2].pc = "returned" /\ disposal[h2].started = 1
    /\ \A t \in Teardowns : td[t].pc = "done"

\* C3: when a teardown has returned and no handle was appended since it
\* was invoked, the sequence is empty, whether or not a disposal failed; a
\* teardown invoked on the empty sequence starts no disposal, leaves the
\* sequence empty and has returned by its first suspension point.
C3_TeardownEmpties ==
    /\ [](\A t \in Teardowns :
            td[t].pc = "done" /\ td[t].returnedAt = ReturnedCalls
                => accounts_to_dispose = <<>>)
    /\ [][\A t \in Teardowns :
            td[t].pc = "none" /\ td'[t].pc # "none" /\ accounts_to_dispose = <<>>
                => /\ disposal' = disposal
                   /\ accounts_to_dispose' = <<>>
                   /\ td'[t].pc = "done"]_vars

C3_Witness ==
    /\ td[1].pc = "done" /\ td[2].pc = "done"
    /\ Len(td[1].futures) = 2 /\ td[2].futures = <<>>
    /\ \E h \in SeqRange(td[1].futures) : disposal[h].state = "failed"
    /\ td[1].returnedAt = ReturnedCalls
    /\ accounts_to_dispose = <<>>

\* C4: a teardown starts the disposal of every handle that is in the
\* sequence when it is invoked; it never raises; and it returns only when
\* every disposal it started has finished, failed or not.
C4_TeardownBestEffort ==
    /\ [](\A t \in Teardowns :
            /\ td[t].pc \in {"none", "gather", "done"}
            /\ \A h \in SeqRange(td[t].futures) : disposal[h].state # "none"
            /\ td[t].pc = "done" =>
                  \A h \in SeqRange(td[t].futures) :
                      disposal[h].state \in {"ok", "failed"})
    /\ [][\A t \in Teardowns :
            td[t].pc = "none" /\ td'[t].pc # "none"
                => \A h \in Pending :
                      /\ disposal'[h].state = "running"
                      /\ disposal'[h].started = disposal[h].started + 1
                      /\ h \in SeqRange(td'[t].futures)]_vars

C4_Witness ==
    \E t \in Teardowns : \E h1, h2 \in SeqRange(td[t].futures) :
        /\ td[t].pc = "done"
        /\ disposal[h1].state = "failed"
        /\ disposal[h2].state = "ok"

\* C5: a call whose handshake raises ends raised and leaves the sequence
\* as it was; the sequence grows only by one handle at its end, in the step
\* in which the handshake of that handle's call returns; and only handles
\* of returned calls are in the sequence.
C5_AppendOnlyAfterHandshake ==
    /\ [](\A h \in Pending : call[h].pc = "returned")
    /\ [][/\ \A c \in Calls :
               call[c].pc = "connect" /\ call'[c].pc # "connect" =>
                  \/ /\ call'[c].pc = "failed"
                     /\ accounts_to_dispose' = accounts_to_dispose
                  \/ /\ call'[c].pc = "returned"
                     /\ accounts_to_dispose' = Append(accounts_to_dispose, c)
          /\ accounts_to_dispose' # accounts_to_dispose =>
               \/ accounts_to_dispose' = <<>>
               \/ \E c \in Calls :
                     /\ call[c].pc = "connect" /\ call'[c].pc = "returned"
                     /\ accounts_to_dispose' = Append(accounts_to_dispose, c)]_vars

C5_Witness ==
    \E c1, c2 \in Calls :
        /\ call[c1].pc = "failed" /\ call[c1].raised = "connect"
        /\ call[c2].pc = "returned"
        /\ accounts_to_dispose = <<c2>>

\* C6: the ids of any two invocations of get_connected_client differ,
\* whether the invocations are in flight, returned or failed.
C6_IdsDistinct ==
    \A c1, c2 \in Calls :
        c1 # c2 /\ call[c1].pc # "none" /\ call[c2].pc # "none"
            => call[c1].id_ # call[c2].id_

C6_Witness ==
    \E c1, c2 \in Calls :
        /\ call[c1].pc = "failed" /\ InFlight(c2)
        /\ call[c1].id_ < call[c2].id_

(***************************************************************************)
(* Properties of the queries on the feature map.                           *)
(***************************************************************************)
Providers == {"s", "a", "b"}
\* the features of the last query that entity e is listed for
Provided(e) ==
    {c \in SeqRange(query.caps) : Occurs(IndexGet(featuremap, c), e)}
ProvidingAll == {e \in Providers : Provided(e) = SeqRange(query.caps)}
Passing == {e \in Providers : Provided(e) # {} /\ query.required \subseteq Provided(e)}
TiedLargest ==
    {e \in Passing :
        \A o \in Passing : Cardinality(Provided(o)) <= Cardinality(Provided(e))}

\* C11: get_feature_providers returns None exactly for no feature, and
\* otherwise the set of the entities listed for every feature asked for.
C11_ProvidersFor ==
    query.op = "providers" =>
        /\ query.none <=> query.caps = <<>>
        /\ ~query.none => query.providers = ProvidingAll

C11_Witness ==
    /\ query.op = "providers" /\ ~query.none
    /\ Len(query.caps) = 2 /\ query.caps[1] # query.caps[2]
    /\ IndexGet(featuremap, query.caps[1]) = <<"b", "s", "b">>
    /\ IndexGet(featuremap, query.caps[2]) = <<"s", "a">>
    /\ query.providers = {"s"}

\* C12: get_feature_subset_provider returns (None, None) exactly when no
\* entity listed for a feature asked for is listed for all required ones;
\* otherwise it returns such an entity with the set of the features asked
\* for that it is listed for, and no such entity has a larger set.
C12_BestSubset ==
    query.op = "subset" =>
        /\ query.none <=> Passing = {}
        /\ query.none => query.provider = None
        /\ ~query.none =>
              /\ query.provider \in Passing
              /\ query.features = Provided(query.provider)
              /\ \A e \in Passing :
                    Cardinality(Provided(e)) <= Cardinality(query.features)

C12_Witness ==
    /\ query.op = "subset" /\ ~query.none
    /\ query.required # {}
    /\ Cardinality(query.features) = 2
    /\ \E e \in Passing : Cardinality(Provided(e)) = 1
    /\ \E e \in Providers \ Passing : Provided(e) # {}

\* C15: get_feature_provider returns None exactly when
\* get_feature_providers gives None or the empty set, and otherwise a
\* member of that set; called again with the same features on the same
\* feature map it returns the same entity.
C15_AnyProvider ==
    /\ [](query.op = "provider" =>
            /\ ~query.raised
            /\ query.provider = None <=> (query.caps = <<>> \/ ProvidingAll = {})
            /\ query.provider # None => query.provider \in ProvidingAll)
    /\ [][query.op = "provider" /\ query'.op = "provider"
            /\ query'.caps = query.caps /\ featuremap' = featuremap
                => query'.provider = query.provider]_vars

C15_Witness ==
    /\ query.op = "provider"
    /\ Cardinality(ProvidingAll) >= 2
    /\ query.provider = "b"
    /\ hashOrder # <<>>

\* the place where the scan of the features asked for, and of the list of
\* each, first meets entity e
FirstSeen(e) ==
    CHOOSE p \in (1..Len(query.caps)) \X (1..3) :
        /\ p[2] <= Len(IndexGet(featuremap, query.caps[p[1]]))
        /\ IndexGet(featuremap, query.caps[p[1]])[p[2]] = e
        /\ \A q \in (1..Len(query.caps)) \X (1..3) :
              (/\ q[2] <= Len(IndexGet(featuremap, query.caps[q[1]]))
               /\ IndexGet(featuremap, query.caps[q[1]])[q[2]] = e)
                  => (p[1] < q[1] \/ (p[1] = q[1] /\ p[2] <= q[2]))
SeenBefore(e, o) ==
    \/ FirstSeen(e)[1] < FirstSeen(o)[1]
    \/ FirstSeen(e)[1] = FirstSeen(o)[1] /\ FirstSeen(e)[2] < FirstSeen(o)[2]
InFirstSeenOrder(items) ==
    \A i, j \in 1..Len(items) : i < j => SeenBefore(items[i], items[j])
PlaceIn(items, e) == CHOOSE i \in 1..Len(items) : items[i] = e

\* C19: of the entities that tie on the largest set,
\* get_feature_subset_provider returns the one that candidates.items()
\* yields last, which is the one first met latest when the candidates are
\* kept in the order in which they were first met.
C19_TieBreak ==
    query.op = "subset" /\ ~query.none =>
        /\ query.provider \in TiedLargest
        /\ \A e \in TiedLargest :
              PlaceIn(query.items, e) <= PlaceIn(query.items, query.provider)
        /\ InFirstSeenOrder(query.items) =>
              \A e \in TiedLargest \ {query.provider} : SeenBefore(e, query.provider)

C19_Witness ==
    /\ query.op = "subset" /\ ~query.none
    /\ Cardinality(TiedLargest) >= 2
    /\ Len(query.caps) = 2
    /\ InFirstSeenOrder(query.items)
    /\ \A e \in TiedLargest \ {query.provider} : SeenBefore(e, query.provider)

(***************************************************************************)
(* Further properties of discover_server_features.                         *)
(***************************************************************************)
RootAppears ==
    \E f \in DOMAIN Outer.all_features : Occurs(Outer.all_features[f], Root)

\* C14 as stated: whenever a discover call returns, the root is a provider
\* in the returned index.
C14_RootAlwaysAppears == Returned => RootAppears

\* C14: whenever a discover call returns, the root is a provider in the
\* returned index exactly when it reports a feature that is not blocked
\* for it; otherwise the index of a non-recursive call is empty.
C14_RootAppearsWithOwnFeature ==
    Returned =>
        /\ RootAppears <=> \E f \in infoOf[Root] : ~Blocked(Root, f)
        /\ ~RootAppears /\ ~Outer.recurse => DOMAIN Outer.all_features = {}

C14_Witness ==
    /\ Returned
    /\ infoOf[Root] # {}
    /\ ~RootAppears
    /\ DOMAIN Outer.all_features # {}

\* the items of a listing that carry a JID and name no node
RECURSIVE EntityItems(_)
EntityItems(items) ==
    IF items = <<>> THEN <<>>
    ELSE IF Head(items).jid # None /\ Head(items).node = None
         THEN <<Head(items)>> \o EntityItems(Tail(items))
         ELSE EntityItems(Tail(items))
RootItems == EntityItems(itemsOf[Root])
RootItemJids == {RootItems[i].jid : i \in 1..Len(RootItems)}
RootPart(f) ==
    IF f \in infoOf[Root] /\ ~Blocked(Root, f) THEN <<Root>> ELSE <<>>

\* C18: whatever the order in which the re-invocations answer, the index a
\* recursive discover call returns lists, for every feature that is blocked
\* for no item, the root (if it provides it) followed by the items with a
\* JID and no node that report it, in listing order; exactly these items
\* are queried, once each, and no other item becomes a provider.
C18_MergeInListingOrder ==
    /\ \A i \in 1..Len(infoQueries) :
          \/ infoQueries[i] = <<(<<>>), Root>>
          \/ \E k \in 1..Len(RootItems) : infoQueries[i] = <<(<<k>>), RootItems[k].jid>>
    /\ Outer.recurse /\ Outer.pc \in {"gather", "done"} =>
          \A k \in 1..Len(RootItems) :
              Count(infoQueries, <<(<<k>>), RootItems[k].jid>>) = 1
    /\ Returned /\ Outer.recurse =>
          /\ \A f \in Features :
                (\A e \in RootItemJids : ~Blocked(e, f)) =>
                    IndexGet(Outer.all_features, f)
                        = RootPart(f) \o ReportingJids(RootItems, f)
          /\ \A f \in DOMAIN Outer.all_features :
                \A i \in 1..Len(Outer.all_features[f]) :
                    Outer.all_features[f][i] \in RootItemJids \cup {Root}

C18_Witness ==
    /\ Returned /\ Outer.recurse
    /\ Outer.outOfOrder
    /\ itemsOf[Root] = <<ItemA, ItemB>>
    /\ IndexGet(Outer.all_features, FeatRead) = <<"s", "a", "b">>

(***************************************************************************)
(* Further properties of the lifecycle.                                    *)
(***************************************************************************)
\* C16 as stated: while a teardown waits for the disposals it started, the
\* handles it is disposing of are still in the sequence.
C16_ClearedAfterWait ==
    \A t \in Teardowns :
        td[t].pc = "gather" =>
            SeqRange(td[t].futures) \subseteq SeqRange(accounts_to_dispose)

\* C16: teardown clears the sequence before it waits: while a teardown
\* waits for the disposals it started, and after it returned, none of the
\* handles it is disposing of is in the sequence.
C16_ClearedBeforeWait ==
    \A t \in Teardowns :
        td[t].pc \in {"gather", "done"} =>
            SeqRange(td[t].futures) \cap SeqRange(accounts_to_dispose) = {}

C16_Witness ==
    \E t \in Teardowns :
        /\ td[t].pc = "gather"
        /\ Len(td[t].futures) = 2
        /\ \E h \in Calls : disposal[h].state = "running"
        /\ accounts_to_dispose = <<>>

HasStep(c, x) == \E i \in 1..Len(call[c].steps) : call[c].steps[i] = x
StepBefore(c, x, y) ==
    \E i, j \in 1..Len(call[c].steps) :
        i < j /\ call[c].steps[i] = x /\ call[c].steps[j] = y
Requested(c) == {call[c].services[i] : i \in 1..Len(call[c].services)}

\* C17: in every invocation of get_connected_client the client is created
\* before a service is summoned, every service asked for is summoned before
\* the prepare hook is called, the hook has returned before the context
\* manager is created and entered; when _make_client or the hook raises,
\* the context manager is never entered, the handle is not in the sequence
\* and the invocation has raised.
C17_StepOrder ==
    \A c \in Calls :
        /\ \A x \in Requested(c) :
              HasStep(c, StepSummon(x)) => StepBefore(c, StepCreated, StepSummon(x))
        /\ HasStep(c, StepPrepare) =>
              /\ call[c].prepare
              /\ StepBefore(c, StepCreated, StepPrepare)
              /\ \A x \in Requested(c) : StepBefore(c, StepSummon(x), StepPrepare)
        /\ HasStep(c, StepConnected) =>
              /\ StepBefore(c, StepCreated, StepConnected)
              /\ \A x \in Requested(c) : StepBefore(c, StepSummon(x), StepConnected)
              /\ call[c].prepare =>
                    /\ StepBefore(c, StepPrepare, StepPrepared)
                    /\ StepBefore(c, StepPrepared, StepConnected)
        /\ HasStep(c, StepEnter) => StepBefore(c, StepConnected, StepEnter)
        /\ call[c].raised \in {"make_client", "prepare"} =>
              /\ call[c].pc = "failed"
              /\ ~HasStep(c, StepConnected) /\ ~HasStep(c, StepEnter)
              /\ c \notin SeqRange(accounts_to_dispose)
        /\ call[c].pc = "failed" => call[c].raised # None

C17_Witness ==
    \E c, d \in Calls :
        /\ call[c].pc = "returned" /\ call[c].prepare
        /\ Len(call[c].services) = 2
        /\ call[d].raised = "prepare"
        /\ Len(call[d].services) = 1

\* a teardown is invoked in this step
TeardownInvoked == \E t \in Teardowns : td[t].pc = "none" /\ td'[t].pc # "none"

\* C20: a handle leaves the sequence only in a step in which a teardown is
\* invoked and initiates its disposal, so a handle appended while a
\* teardown waits stays until another teardown is invoked; and no disposal
\* is initiated twice.
C20_NoHandleLost ==
    /\ [](\A h \in Calls : disposal[h].started <= 1)
    /\ [][\A h \in Calls :
            (h \in SeqRange(accounts_to_dispose)
                /\ h \notin SeqRange(accounts_to_dispose')) =>
                    /\ TeardownInvoked
                    /\ disposal'[h].started = disposal[h].started + 1]_vars

C20_Witness ==
    /\ td[1].pc = "gather" /\ td[2].pc = "gather"
    /\ td[1].futures # <<>> /\ td[2].futures # <<>>
    /\ \A h \in Calls : disposal[h].started = 1

FailedConnected == init.pc = "raised" /\ call[1].pc = "returned"

\* C21: when the discovery of initialise fails, or its query of the account
\* info raises, initialise raises; a failed discovery leaves the feature
\* map as it was; and the handle of invocation 1 is in the sequence in the
\* step in which initialise raises and stays there until teardown is
\* invoked, which initiates its disposal.
C21_FailureKeepsHandle ==
    /\ [](/\ Outer.pc = "failed" => FailedConnected /\ featuremap = <<>>
          /\ FailedConnected =>
                IF td[1].pc = "none"
                THEN 1 \in SeqRange(accounts_to_dispose)
                     /\ disposal[1].started = 0
                ELSE 1 \in SeqRange(td[1].futures)
                     /\ disposal[1].started = 1)
    /\ [][/\ Outer.pc # "failed" /\ Outer'.pc = "failed" =>
                /\ featuremap' = featuremap
                /\ init'.pc = "raised"
                /\ 1 \in SeqRange(accounts_to_dispose')
          /\ init.pc = "account_info" /\ init'.pc # "account_info" =>
                \/ init'.pc = "done" /\ account_info' \in AccountInfos
                \/ /\ init'.pc = "raised"
                   /\ account_info' = account_info
                   /\ 1 \in SeqRange(accounts_to_dispose')]_vars

C21_Witness ==
    /\ FailedConnected
    /\ Outer.pc = "failed"
    /\ Outer.kids = 2
    /\ \E t \in Paths : task[t].pc = "info"
    /\ td[1].pc = "gather"
    /\ disposal[1].state = "running"

====
